---- MODULE Spec2Model ----
(***************************************************************************)
(* Model of lazyfile's interactive state machine: the App session state    *)
(* (src/app/state.rs), the key dispatcher (src/app/handler.rs), the two    *)
(* modal widgets' state (src/ui/widgets/confirm_modal.rs, create_remote.rs)*)
(* the rclone client's result mapping (src/rclone/client.rs) and the event *)
(* loop (src/main.rs).                                                     *)
(*                                                                         *)
(* Strings are sequences of one-character strings, Option<T> is a sequence *)
(* of length 0 (None) or 1 (Some).  Terminal I/O errors of the render step *)
(* are outside the model.                                                  *)
(***************************************************************************)
EXTENDS Integers, Sequences, FiniteSets, TLC

VARIABLES
    remotes,               \* App.remotes: Vec<String>
    current_remote,        \* App.current_remote: Option<String>
    current_path,          \* App.current_path: String
    files,                 \* App.files: Vec<NavigationItem>
    remotes_selected,      \* App.remotes_selected: usize
    files_selected,        \* App.files_selected: usize
    focused_panel,         \* App.focused_panel: Panel
    running,               \* App.running: bool
    create_remote_modal,   \* App.create_remote_modal: Option<CreateRemoteModal>
    confirm_modal,         \* App.confirm_modal: Option<ConfirmModal>
    pending_delete_remote, \* App.pending_delete_remote: Option<String>
    daemon,                \* the daemon's configured remotes, in its listing order
    pc,                    \* position of main/run_app: start, loop, exit_ok, exit_err
    requests,              \* requests sent to the daemon by the latest step, in order
    answers,               \* the daemon's answers to requests, in the same order
    result,                \* Ok / Err returned by the latest step's call
    loaded,                \* (remote, path, listing) of the list_files call that
                           \* produced the present files, None once files is cleared
    preopen                \* the App fields as they were when the open modal was
                           \* opened, while no Enter was handled in it; else None

app == <<remotes, current_remote, current_path, files, remotes_selected,
         files_selected, focused_panel, running, create_remote_modal,
         confirm_modal, pending_delete_remote>>

vars == <<remotes, current_remote, current_path, files, remotes_selected,
          files_selected, focused_panel, running, create_remote_modal,
          confirm_modal, pending_delete_remote, daemon, pc, requests,
          answers, result, loaded, preopen>>

----------------------------------------------------------------------------
(* Bounds of the model *)

\* longest text a Create/Edit field is grown to by typing
MaxFieldLen == 1

\* depth of the daemon's directory tree
MaxDepth == 2

\* characters typed into the Create/Edit modal's text fields
TextChars == {"a"}

\* remote names the daemon accepts in a create call
ValidNames == {<<"a">>, <<"b">>}

\* configurations the daemon may start with
InitialDaemon == {<<>>, << <<"a">> >>, << <<"a">>, <<"b">> >>}

----------------------------------------------------------------------------
(* Option<T> *)

None == <<>>

Some(x) == <<x>>

IsSome(o) == Len(o) = 1

Unwrap(o) == o[1]

----------------------------------------------------------------------------
(* Key events *)

Chars == {"q", "a", "d", "e", "j", "k", "y", "n"}

PlainCodes == {"Down", "Up", "Tab", "BackTab", "Enter", "Backspace", "Esc",
               "Left", "Right", "Other"}

Key(code, c) == [code |-> code, c |-> c]

Keys == {Key("Char", c) : c \in Chars} \cup {Key(code, "") : code \in PlainCodes}

----------------------------------------------------------------------------
(* rclone/types.rs and the daemon's answers *)

\* FileItem: size and mod_time are carried but never read by the handlers
FileItem(name, is_dir) == [name |-> name, is_dir |-> is_dir]

DirD == FileItem(<<"d">>, TRUE)

FileF == FileItem(<<"f">>, FALSE)

RECURSIVE CountSep(_)
CountSep(s) == IF s = <<>> THEN 0
               ELSE (IF Head(s) = "/" THEN 1 ELSE 0) + CountSep(Tail(s))

\* listings the daemon may hold at a path: directories only above MaxDepth
DaemonListings(path) ==
    IF CountSep(path) < MaxDepth
    THEN {<<>>, <<DirD>>, <<FileF, DirD>>}
    ELSE {<<>>, <<FileF>>}

\* outcome of one HTTP round trip for the calls whose body is not parsed
MutationKinds == {"unreachable", "status", "ok"}

\* outcome of one HTTP round trip for the calls whose JSON body is parsed:
\* success status with a well-formed body ("ok"), without the expected field
\* ("nofield"), with the field of the wrong type ("wrongtype"), or with a
\* body that is not JSON ("badjson")
ListKinds == {"unreachable", "status", "badjson", "nofield", "wrongtype", "ok"}

Request(op, name, rtype, params, fs) ==
    [op |-> op, name |-> name, rtype |-> rtype, params |-> params, fs |-> fs]

Ok(v) == [ok |-> TRUE, val |-> v, err |-> ""]

Err(e) == [ok |-> FALSE, val |-> <<>>, err |-> e]

\* an answer of the daemon: the kind of the round trip's outcome and, for a
\* well-formed body, the value of its expected field
Answer(kind, body) == [kind |-> kind, body |-> IF kind = "ok" THEN body ELSE <<>>]

----------------------------------------------------------------------------
(* rclone/client.rs *)

ListRemotesRequest == Request("config/listremotes", <<>>, <<>>, {}, <<>>)

\* list_remotes returning the names in reverse order
list_remotes_Reversed(kind, cfg) ==
    CASE kind = "unreachable" -> Err("HTTP error")
      [] kind = "status"      -> Err("Rclone API error: Failed to list remotes")
      [] kind = "badjson"     -> Err("JSON error")
      [] kind = "ok"          -> Ok([i \in 1..Len(cfg) |-> cfg[Len(cfg) + 1 - i]])
      [] OTHER                -> Err("Rclone API error: Unexpected response format from rclone")

\* RcloneClient::list_remotes: the result for an answer of the given kind
\* whose remotes field, when well-formed, is cfg
list_remotes(kind, cfg) ==
    CASE kind = "unreachable" -> Err("HTTP error")
      [] kind = "status"      -> Err("Rclone API error: Failed to list remotes")
      [] kind = "badjson"     -> Err("JSON error")
      [] kind = "ok"          -> Ok(cfg)
      [] OTHER                -> Err("Rclone API error: Unexpected response format from rclone")

\* the fs value of a list request
\* fs_path naming the root of a remote without the separator
fs_path_BareRoot(remote, path) ==
    IF path = <<>> THEN remote ELSE remote \o <<":">> \o path

fs_path(remote, path) ==
    IF path = <<>> THEN remote \o <<":">> ELSE remote \o <<":">> \o path

ListFilesRequest(remote, path) ==
    Request("operations/list", <<>>, <<>>, {}, fs_path(remote, path))

\* list_files treating a missing list field as list_remotes treats a missing
\* remotes field
list_files_NoFieldFails(kind, listing) ==
    CASE kind = "unreachable" -> Err("HTTP error")
      [] kind = "status"      -> Err("Rclone API error: Failed to list files")
      [] kind = "badjson"     -> Err("JSON error")
      [] kind = "ok"          -> Ok(listing)
      [] kind = "nofield"     -> Err("Rclone API error: Unexpected response format from rclone")
      [] OTHER                -> Ok(<<>>)

\* RcloneClient::list_files: the result for an answer of the given kind whose
\* list field, when present and well-formed, is listing
list_files(kind, listing) ==
    CASE kind = "unreachable" -> Err("HTTP error")
      [] kind = "status"      -> Err("Rclone API error: Failed to list files")
      [] kind = "badjson"     -> Err("JSON error")
      [] kind = "ok"          -> Ok(listing)
      [] kind = "nofield"     -> Ok(<<>>)
      [] OTHER                -> Ok(<<>>)

CreateRequest(name, rtype, params) == Request("config/create", name, rtype, params, <<>>)

create_remote(kind) ==
    CASE kind = "unreachable" -> Err("HTTP error")
      [] kind = "status"      -> Err("Rclone API error: Failed to create remote")
      [] OTHER                -> Ok(<<>>)

UpdateRequest(name, params) == Request("config/update", name, <<>>, params, <<>>)

update_remote(kind) ==
    CASE kind = "unreachable" -> Err("HTTP error")
      [] kind = "status"      -> Err("Rclone API error: Failed to update remote")
      [] OTHER                -> Ok(<<>>)

DeleteRequest(name) == Request("config/delete", name, <<>>, {}, <<>>)

delete_remote(kind) ==
    CASE kind = "unreachable" -> Err("HTTP error")
      [] kind = "status"      -> Err("Rclone API error: Failed to delete remote")
      [] OTHER                -> Ok(<<>>)

\* the daemon's configuration after it accepted a create / a delete
DaemonCreate(cfg, name) ==
    IF \E i \in 1..Len(cfg) : cfg[i] = name THEN cfg ELSE Append(cfg, name)

DaemonDelete(cfg, name) == SelectSeq(cfg, LAMBDA r : r # name)

\* the daemon refuses names it does not accept
CreateKinds(name) == IF name \in ValidNames THEN MutationKinds ELSE {"unreachable", "status"}

----------------------------------------------------------------------------
(* ui/widgets/confirm_modal.rs *)

\* ConfirmModal::new starting with Yes selected
ConfirmModal_new_Yes(title, message) ==
    [title |-> title, message |-> message, selected |-> "Yes"]

ConfirmModal_new(title, message) ==
    [title |-> title, message |-> message, selected |-> "No"]

\* toggle that only ever selects Yes
toggle_ToYes(modal) == [modal EXCEPT !.selected = "Yes"]

toggle(modal) ==
    [modal EXCEPT !.selected = IF modal.selected = "Yes" THEN "No" ELSE "Yes"]

\* is_confirmed answering true whatever is selected
is_confirmed_Always(modal) == modal.selected \in {"Yes", "No"}

is_confirmed(modal) == modal.selected = "Yes"

----------------------------------------------------------------------------
(* ui/widgets/create_remote.rs *)

Local == <<"l", "o", "c", "a", "l">>

CreateRemoteModal_new(mode) ==
    [mode |-> mode, name |-> <<>>, remote_type |-> Local, path |-> <<>>,
     focus_field |-> "Name", error |-> None]

\* with_name that does not store the name
with_name_Ignores(modal, name) == modal

with_name(modal, name) == [modal EXCEPT !.name = name]

with_type(modal, remote_type) == [modal EXCEPT !.remote_type = remote_type]

next_field(modal) ==
    [modal EXCEPT !.focus_field =
        CASE modal.focus_field = "Name" -> "Type"
          [] modal.focus_field = "Type" -> "Path"
          [] OTHER                      -> "Name"]

\* prev_field stopping at Name instead of going round to Path
prev_field_Stops(modal) ==
    [modal EXCEPT !.focus_field =
        CASE modal.focus_field = "Name" -> "Name"
          [] modal.focus_field = "Type" -> "Name"
          [] OTHER                      -> "Type"]

prev_field(modal) ==
    [modal EXCEPT !.focus_field =
        CASE modal.focus_field = "Name" -> "Path"
          [] modal.focus_field = "Type" -> "Name"
          [] OTHER                      -> "Type"]

\* input_char typing into the name whatever field has the focus
input_char_ToName(modal, c) == [modal EXCEPT !.name = Append(@, c)]

input_char(modal, c) ==
    CASE modal.focus_field = "Name" -> [modal EXCEPT !.name = Append(@, c)]
      [] modal.focus_field = "Type" -> [modal EXCEPT !.remote_type = Append(@, c)]
      [] OTHER                      -> [modal EXCEPT !.path = Append(@, c)]

\* String::pop
Pop(s) == IF s = <<>> THEN s ELSE SubSeq(s, 1, Len(s) - 1)

backspace(modal) ==
    CASE modal.focus_field = "Name" -> [modal EXCEPT !.name = Pop(@)]
      [] modal.focus_field = "Type" -> [modal EXCEPT !.remote_type = Pop(@)]
      [] OTHER                      -> [modal EXCEPT !.path = Pop(@)]

\* is_valid looking at the name only
is_valid_NameOnly(modal) == modal.name # <<>>

is_valid(modal) == modal.name # <<>> /\ modal.remote_type # <<>>

\* the text of the field that has the focus
FocusedText(modal) ==
    CASE modal.focus_field = "Name" -> modal.name
      [] modal.focus_field = "Type" -> modal.remote_type
      [] OTHER                      -> modal.path

----------------------------------------------------------------------------
(* app/state.rs *)

\* App::new, before main has called anything
Init ==
    /\ remotes = <<>>
    /\ current_remote = None
    /\ current_path = <<>>
    /\ files = <<>>
    /\ remotes_selected = 0
    /\ files_selected = 0
    /\ focused_panel = "Remotes"
    /\ running = TRUE
    /\ create_remote_modal = None
    /\ confirm_modal = None
    /\ pending_delete_remote = None
    /\ daemon \in InitialDaemon
    /\ pc = "start"
    /\ requests = <<>>
    /\ answers = <<>>
    /\ result = "Ok"
    /\ loaded = None
    /\ preopen = None

\* a step that calls nothing on the client
NoCall ==
    /\ requests' = <<>>
    /\ answers' = <<>>
    /\ result' = "Ok"
    /\ UNCHANGED <<daemon, loaded>>

\* Vec::get(i) with a 0-based index
Get(v, i) == IF i < Len(v) THEN Some(v[i + 1]) ELSE None

\* load_remotes without the reset of remotes_selected
load_remotes_KeepsSelection(sent) ==
    \E kind \in ListKinds :
        LET r == list_remotes(kind, daemon') IN
        /\ requests' = Append(sent, ListRemotesRequest)
        /\ answers' = Append([i \in 1..Len(sent) |-> Answer("ok", <<>>)],
                             Answer(kind, daemon'))
        /\ IF r.ok
           THEN remotes' = r.val /\ UNCHANGED remotes_selected /\ result' = "Ok"
           ELSE UNCHANGED <<remotes, remotes_selected>> /\ result' = "Err"

\* load_remotes asking a second time when the first answer is a failure
load_remotes_Retries(sent) ==
    \E kind \in ListKinds :
        LET r == list_remotes(kind, daemon') IN
        /\ IF r.ok
           THEN /\ requests' = Append(sent, ListRemotesRequest)
                /\ answers' = Append([i \in 1..Len(sent) |-> Answer("ok", <<>>)],
                                     Answer(kind, daemon'))
                /\ remotes' = r.val /\ remotes_selected' = 0 /\ result' = "Ok"
           ELSE /\ requests' = sent \o <<ListRemotesRequest, ListRemotesRequest>>
                /\ answers' = [i \in 1..Len(sent) |-> Answer("ok", <<>>)]
                                \o <<Answer(kind, daemon'), Answer(kind, daemon')>>
                /\ UNCHANGED <<remotes, remotes_selected>> /\ result' = "Err"

\* App::load_remotes, called after the requests in sent; the daemon answers
\* from the configuration it has then
load_remotes(sent) ==
    \E kind \in ListKinds :
        LET r == list_remotes(kind, daemon') IN
        /\ requests' = Append(sent, ListRemotesRequest)
        /\ answers' = Append([i \in 1..Len(sent) |-> Answer("ok", <<>>)],
                             Answer(kind, daemon'))
        /\ IF r.ok
           THEN remotes' = r.val /\ remotes_selected' = 0 /\ result' = "Ok"
           ELSE UNCHANGED <<remotes, remotes_selected>> /\ result' = "Err"

\* load_files without the reset of files_selected
load_files_KeepsSelection ==
    IF IsSome(current_remote')
    THEN \E kind \in ListKinds, listing \in DaemonListings(current_path') :
            LET r == list_files(kind, listing) IN
            /\ requests' = <<ListFilesRequest(Unwrap(current_remote'), current_path')>>
            /\ answers' = <<Answer(kind, listing)>>
            /\ IF r.ok
               THEN /\ files' = r.val
                    /\ UNCHANGED files_selected
                    /\ loaded' = Some([remote |-> Unwrap(current_remote'),
                                       path |-> current_path', list |-> r.val])
                    /\ result' = "Ok"
               ELSE /\ UNCHANGED <<files, files_selected, loaded>>
                    /\ result' = "Err"
    ELSE /\ UNCHANGED files_selected
         /\ requests' = <<>>
         /\ answers' = <<>>
         /\ result' = "Ok"
         /\ UNCHANGED <<files, loaded>>

\* App::load_files, called after the handler assigned current_remote and
\* current_path
load_files ==
    IF IsSome(current_remote')
    THEN \E kind \in ListKinds, listing \in DaemonListings(current_path') :
            LET r == list_files(kind, listing) IN
            /\ requests' = <<ListFilesRequest(Unwrap(current_remote'), current_path')>>
            /\ answers' = <<Answer(kind, listing)>>
            /\ IF r.ok
               THEN /\ files' = r.val
                    /\ files_selected' = 0
                    /\ loaded' = Some([remote |-> Unwrap(current_remote'),
                                       path |-> current_path', list |-> r.val])
                    /\ result' = "Ok"
               ELSE /\ UNCHANGED <<files, files_selected, loaded>>
                    /\ result' = "Err"
    ELSE /\ files_selected' = 0
         /\ requests' = <<>>
         /\ answers' = <<>>
         /\ result' = "Ok"
         /\ UNCHANGED <<files, loaded>>

\* usize::saturating_sub(1)
SaturatingPred(n) == IF n = 0 THEN 0 ELSE n - 1

\* navigate_down going back to the first entry after the last
navigate_down_Wraps ==
    /\ IF focused_panel = "Remotes"
       THEN /\ remotes_selected' = IF remotes_selected < SaturatingPred(Len(remotes))
                                   THEN remotes_selected + 1 ELSE 0
            /\ UNCHANGED files_selected
       ELSE /\ files_selected' = IF files_selected < SaturatingPred(Len(files))
                                 THEN files_selected + 1 ELSE 0
            /\ UNCHANGED remotes_selected
    /\ UNCHANGED <<remotes, current_remote, current_path, files, focused_panel,
                   running, create_remote_modal, confirm_modal, pending_delete_remote>>
    /\ NoCall

navigate_down ==
    /\ IF focused_panel = "Remotes"
       THEN /\ remotes_selected' = IF remotes_selected < SaturatingPred(Len(remotes))
                                   THEN remotes_selected + 1 ELSE remotes_selected
            /\ UNCHANGED files_selected
       ELSE /\ files_selected' = IF files_selected < SaturatingPred(Len(files))
                                 THEN files_selected + 1 ELSE files_selected
            /\ UNCHANGED remotes_selected
    /\ UNCHANGED <<remotes, current_remote, current_path, files, focused_panel,
                   running, create_remote_modal, confirm_modal, pending_delete_remote>>
    /\ NoCall

navigate_up ==
    /\ IF focused_panel = "Remotes"
       THEN /\ remotes_selected' = IF remotes_selected > 0
                                   THEN remotes_selected - 1 ELSE remotes_selected
            /\ UNCHANGED files_selected
       ELSE /\ files_selected' = IF files_selected > 0
                                 THEN files_selected - 1 ELSE files_selected
            /\ UNCHANGED remotes_selected
    /\ UNCHANGED <<remotes, current_remote, current_path, files, focused_panel,
                   running, create_remote_modal, confirm_modal, pending_delete_remote>>
    /\ NoCall

\* switch_panel that only ever moves the focus to Files
switch_panel_ToFiles ==
    /\ focused_panel' = "Files"
    /\ UNCHANGED <<remotes, current_remote, current_path, files, remotes_selected,
                   files_selected, running, create_remote_modal, confirm_modal,
                   pending_delete_remote>>
    /\ NoCall

switch_panel ==
    /\ focused_panel' = IF focused_panel = "Remotes" THEN "Files" ELSE "Remotes"
    /\ UNCHANGED <<remotes, current_remote, current_path, files, remotes_selected,
                   files_selected, running, create_remote_modal, confirm_modal,
                   pending_delete_remote>>
    /\ NoCall

----------------------------------------------------------------------------
(* app/handler.rs *)

\* a match arm that does nothing (or no arm at all)
Ignore == UNCHANGED app /\ NoCall

\* Params inserting the path entry also for an empty path
Params_Always(modal) == {<<"path", modal.path>>}

\* the "path" entry of the parameter map
Params(modal) == IF modal.path # <<>> THEN {<<"path", modal.path>>} ELSE {}

\* WithError building a fresh modal instead of keeping the entered fields
WithError_DropsInput(modal, msg) ==
    [CreateRemoteModal_new(modal.mode) EXCEPT !.error = Some(msg)]

\* the modal put back by handle_modal_submit with an error message
WithError(modal, msg) == [modal EXCEPT !.error = Some(msg)]

handle_modal_submit ==
    /\ IF IsSome(create_remote_modal)
       THEN LET modal == Unwrap(create_remote_modal) IN
            IF ~is_valid(modal)
            THEN /\ create_remote_modal' =
                        Some(WithError(modal, <<"Name and Type are required">>))
                 /\ UNCHANGED <<remotes, remotes_selected>>
                 /\ NoCall
            ELSE IF modal.mode = "Create"
            THEN \E kind \in CreateKinds(modal.name) :
                    LET r   == create_remote(kind)
                        req == CreateRequest(modal.name, modal.remote_type, Params(modal))
                    IN  IF ~r.ok
                        THEN /\ create_remote_modal' =
                                    Some(WithError(modal, <<"Error: ", r.err>>))
                             /\ requests' = <<req>>
                             /\ answers' = <<Answer(kind, <<>>)>>
                             /\ result' = "Ok"
                             /\ UNCHANGED <<daemon, remotes, remotes_selected>>
                        ELSE /\ create_remote_modal' = None
                             /\ daemon' = DaemonCreate(daemon, modal.name)
                             /\ load_remotes(<<req>>)
            ELSE \E kind \in MutationKinds :
                    LET r   == update_remote(kind)
                        req == UpdateRequest(modal.name, Params(modal))
                    IN  IF ~r.ok
                        THEN /\ create_remote_modal' =
                                    Some(WithError(modal, <<"Error: ", r.err>>))
                             /\ requests' = <<req>>
                             /\ answers' = <<Answer(kind, <<>>)>>
                             /\ result' = "Ok"
                             /\ UNCHANGED <<daemon, remotes, remotes_selected>>
                        ELSE /\ create_remote_modal' = None
                             /\ daemon' = daemon
                             /\ load_remotes(<<req>>)
       ELSE /\ UNCHANGED <<create_remote_modal, remotes, remotes_selected>>
            /\ NoCall
    /\ UNCHANGED <<current_remote, current_path, files, files_selected,
                   focused_panel, running, confirm_modal, pending_delete_remote,
                   loaded>>

\* ModalOnly moving the panel focus as the Tab arm of handle_key does
ModalOnly_SwitchesPanel(modal) ==
    /\ create_remote_modal' = modal
    /\ focused_panel' = IF focused_panel = "Remotes" THEN "Files" ELSE "Remotes"
    /\ UNCHANGED <<remotes, current_remote, current_path, files, remotes_selected,
                   files_selected, running, confirm_modal, pending_delete_remote>>
    /\ NoCall

\* the arms of handle_modal_key that only rewrite the modal
ModalOnly(modal) ==
    /\ create_remote_modal' = modal
    /\ UNCHANGED <<remotes, current_remote, current_path, files, remotes_selected,
                   files_selected, focused_panel, running, confirm_modal,
                   pending_delete_remote>>
    /\ NoCall

handle_modal_key(k) ==
    IF IsSome(create_remote_modal)
    THEN LET modal == Unwrap(create_remote_modal) IN
         CASE k.code = "Esc"       -> ModalOnly(None)
           [] k.code = "Tab"       -> ModalOnly(Some(next_field(modal)))
           [] k.code = "BackTab"   -> ModalOnly(Some(prev_field(modal)))
           [] k.code = "Char"      ->
                ModalOnly(Some([input_char(modal, k.c) EXCEPT !.error = None]))
           [] k.code = "Backspace" ->
                ModalOnly(Some([backspace(modal) EXCEPT !.error = None]))
           [] k.code = "Enter"     -> handle_modal_submit
           [] OTHER                -> Ignore
    ELSE Ignore

\* handle_delete_remote taking the first remote whatever is selected
handle_delete_remote_TakesFirst ==
    LET remote == Get(remotes, 0) IN
    /\ IF IsSome(remote)
       THEN /\ pending_delete_remote' = Some(Unwrap(remote))
            /\ confirm_modal' = Some(ConfirmModal_new(<<"Delete Remote">>,
                                         <<"Delete '", Unwrap(remote), "'?">>))
       ELSE UNCHANGED <<pending_delete_remote, confirm_modal>>
    /\ UNCHANGED <<remotes, current_remote, current_path, files, remotes_selected,
                   files_selected, focused_panel, running, create_remote_modal>>
    /\ NoCall

handle_delete_remote ==
    LET remote == Get(remotes, remotes_selected) IN
    /\ IF IsSome(remote)
       THEN /\ pending_delete_remote' = Some(Unwrap(remote))
            /\ confirm_modal' = Some(ConfirmModal_new(<<"Delete Remote">>,
                                         <<"Delete '", Unwrap(remote), "'?">>))
       ELSE UNCHANGED <<pending_delete_remote, confirm_modal>>
    /\ UNCHANGED <<remotes, current_remote, current_path, files, remotes_selected,
                   files_selected, focused_panel, running, create_remote_modal>>
    /\ NoCall

\* the arms of handle_confirm_key that only rewrite the modal
ConfirmOnly(modal) ==
    /\ confirm_modal' = modal
    /\ UNCHANGED <<remotes, current_remote, current_path, files, remotes_selected,
                   files_selected, focused_panel, running, create_remote_modal,
                   pending_delete_remote>>
    /\ NoCall

\* ConfirmEnter leaving the current remote when it is the pending target
ConfirmEnter_LeavesRemote(modal) ==
    /\ IF is_confirmed(modal) /\ IsSome(pending_delete_remote)
       THEN LET remote == Unwrap(pending_delete_remote) IN
            /\ pending_delete_remote' = None
            /\ \E kind \in MutationKinds :
                 IF delete_remote(kind).ok
                 THEN /\ daemon' = DaemonDelete(daemon, remote)
                      /\ load_remotes(<<DeleteRequest(remote)>>)
                      /\ confirm_modal' = IF result' = "Ok" THEN None ELSE confirm_modal
                 ELSE /\ requests' = <<DeleteRequest(remote)>>
                      /\ answers' = <<Answer(kind, <<>>)>>
                      /\ result' = "Err"
                      /\ UNCHANGED <<daemon, remotes, remotes_selected, confirm_modal>>
       ELSE /\ confirm_modal' = None
            /\ requests' = <<>>
            /\ answers' = <<>>
            /\ result' = "Ok"
            /\ UNCHANGED <<daemon, remotes, remotes_selected, pending_delete_remote>>
    /\ current_remote' = IF current_remote = pending_delete_remote
                         THEN None ELSE current_remote
    /\ UNCHANGED <<current_path, files, files_selected,
                   focused_panel, running, create_remote_modal, loaded>>

\* the Enter arm of handle_confirm_key
ConfirmEnter(modal) ==
    /\ IF is_confirmed(modal) /\ IsSome(pending_delete_remote)
       THEN LET remote == Unwrap(pending_delete_remote) IN
            /\ pending_delete_remote' = None
            /\ \E kind \in MutationKinds :
                 IF delete_remote(kind).ok
                 THEN /\ daemon' = DaemonDelete(daemon, remote)
                      /\ load_remotes(<<DeleteRequest(remote)>>)
                      /\ confirm_modal' = IF result' = "Ok" THEN None ELSE confirm_modal
                 ELSE /\ requests' = <<DeleteRequest(remote)>>
                      /\ answers' = <<Answer(kind, <<>>)>>
                      /\ result' = "Err"
                      /\ UNCHANGED <<daemon, remotes, remotes_selected, confirm_modal>>
       ELSE /\ confirm_modal' = None
            /\ requests' = <<>>
            /\ answers' = <<>>
            /\ result' = "Ok"
            /\ UNCHANGED <<daemon, remotes, remotes_selected, pending_delete_remote>>
    /\ UNCHANGED <<current_remote, current_path, files, files_selected,
                   focused_panel, running, create_remote_modal, loaded>>

handle_confirm_key(k) ==
    IF IsSome(confirm_modal)
    THEN LET modal == Unwrap(confirm_modal) IN
         CASE k.code = "Esc" ->
                /\ confirm_modal' = None
                /\ pending_delete_remote' = None
                /\ UNCHANGED <<remotes, current_remote, current_path, files,
                               remotes_selected, files_selected, focused_panel,
                               running, create_remote_modal>>
                /\ NoCall
           [] k.code \in {"Tab", "Right", "Left"} -> ConfirmOnly(Some(toggle(modal)))
           [] k.code = "Char" /\ k.c \in {"y", "n"} ->
                IF (k.c = "y") # is_confirmed(modal)
                THEN ConfirmOnly(Some(toggle(modal)))
                ELSE ConfirmOnly(Some(modal))
           [] k.code = "Enter" -> ConfirmEnter(modal)
           [] OTHER -> Ignore
    ELSE Ignore

handle_edit_remote ==
    LET remote == Get(remotes, remotes_selected) IN
    /\ IF IsSome(remote)
       THEN create_remote_modal' =
                Some(with_type(with_name(CreateRemoteModal_new("Edit"), Unwrap(remote)),
                               Local))
       ELSE UNCHANGED create_remote_modal
    /\ UNCHANGED <<remotes, current_remote, current_path, files, remotes_selected,
                   files_selected, focused_panel, running, confirm_modal,
                   pending_delete_remote>>
    /\ NoCall

\* String::find('/') in the place of rfind: the first separator
RFind_First(s) ==
    LET at == {i \in 1..Len(s) : s[i] = "/"} IN
    IF at = {} THEN -1 ELSE (CHOOSE i \in at : \A j \in at : i <= j) - 1

\* String::rfind('/') as a 0-based index, -1 when there is none
RFind(s) ==
    LET at == {i \in 1..Len(s) : s[i] = "/"} IN
    IF at = {} THEN -1 ELSE (CHOOSE i \in at : \A j \in at : j <= i) - 1

\* handle_enter building the path of a directory as if it were in the root
handle_enter_FromRoot ==
    /\ IF focused_panel = "Remotes"
       THEN LET remote == Get(remotes, remotes_selected) IN
            IF IsSome(remote)
            THEN /\ current_remote' = Some(Unwrap(remote))
                 /\ current_path' = <<>>
                 /\ load_files
                 /\ focused_panel' = IF result' = "Ok" THEN "Files" ELSE focused_panel
                 /\ UNCHANGED daemon
            ELSE /\ UNCHANGED <<current_remote, current_path, files, files_selected,
                                focused_panel>>
                 /\ NoCall
       ELSE LET item == Get(files, files_selected) IN
            IF IsSome(item) /\ Unwrap(item).is_dir
            THEN /\ current_path' = <<"/">> \o Unwrap(item).name
                 /\ UNCHANGED current_remote
                 /\ load_files
                 /\ UNCHANGED <<focused_panel, daemon>>
            ELSE /\ UNCHANGED <<current_remote, current_path, files, files_selected,
                                focused_panel>>
                 /\ NoCall
    /\ UNCHANGED <<remotes, remotes_selected, running, create_remote_modal,
                   confirm_modal, pending_delete_remote>>

\* handle_enter ending the path of a directory with a separator
handle_enter_TrailingSlash ==
    /\ IF focused_panel = "Remotes"
       THEN LET remote == Get(remotes, remotes_selected) IN
            IF IsSome(remote)
            THEN /\ current_remote' = Some(Unwrap(remote))
                 /\ current_path' = <<>>
                 /\ load_files
                 /\ focused_panel' = IF result' = "Ok" THEN "Files" ELSE focused_panel
                 /\ UNCHANGED daemon
            ELSE /\ UNCHANGED <<current_remote, current_path, files, files_selected,
                                focused_panel>>
                 /\ NoCall
       ELSE LET item == Get(files, files_selected) IN
            IF IsSome(item) /\ Unwrap(item).is_dir
            THEN /\ current_path' = IF current_path = <<>>
                                    THEN <<"/">> \o Unwrap(item).name \o <<"/">>
                                    ELSE current_path \o <<"/">> \o Unwrap(item).name \o <<"/">>
                 /\ UNCHANGED current_remote
                 /\ load_files
                 /\ UNCHANGED <<focused_panel, daemon>>
            ELSE /\ UNCHANGED <<current_remote, current_path, files, files_selected,
                                focused_panel>>
                 /\ NoCall
    /\ UNCHANGED <<remotes, remotes_selected, running, create_remote_modal,
                   confirm_modal, pending_delete_remote>>

handle_enter ==
    /\ IF focused_panel = "Remotes"
       THEN LET remote == Get(remotes, remotes_selected) IN
            IF IsSome(remote)
            THEN /\ current_remote' = Some(Unwrap(remote))
                 /\ current_path' = <<>>
                 /\ load_files
                 /\ focused_panel' = IF result' = "Ok" THEN "Files" ELSE focused_panel
                 /\ UNCHANGED daemon
            ELSE /\ UNCHANGED <<current_remote, current_path, files, files_selected,
                                focused_panel>>
                 /\ NoCall
       ELSE LET item == Get(files, files_selected) IN
            IF IsSome(item) /\ Unwrap(item).is_dir
            THEN /\ current_path' = IF current_path = <<>>
                                    THEN <<"/">> \o Unwrap(item).name
                                    ELSE current_path \o <<"/">> \o Unwrap(item).name
                 /\ UNCHANGED current_remote
                 /\ load_files
                 /\ UNCHANGED <<focused_panel, daemon>>
            ELSE /\ UNCHANGED <<current_remote, current_path, files, files_selected,
                                focused_panel>>
                 /\ NoCall
    /\ UNCHANGED <<remotes, remotes_selected, running, create_remote_modal,
                   confirm_modal, pending_delete_remote>>

\* handle_backspace leaving the files of the remote it goes back from
handle_backspace_KeepsFiles ==
    /\ IF focused_panel = "Files"
       THEN IF current_path # <<>>
            THEN /\ current_path' = IF RFind(current_path) >= 0
                                    THEN SubSeq(current_path, 1, RFind(current_path))
                                    ELSE <<>>
                 /\ UNCHANGED current_remote
                 /\ load_files
                 /\ UNCHANGED <<focused_panel, daemon>>
            ELSE /\ current_remote' = None
                 /\ focused_panel' = "Remotes"
                 /\ UNCHANGED <<files, loaded>>
                 /\ requests' = <<>>
                 /\ answers' = <<>>
                 /\ result' = "Ok"
                 /\ UNCHANGED <<current_path, files_selected, daemon>>
       ELSE /\ UNCHANGED <<current_remote, current_path, files, files_selected,
                           focused_panel>>
            /\ NoCall
    /\ UNCHANGED <<remotes, remotes_selected, running, create_remote_modal,
                   confirm_modal, pending_delete_remote>>

\* handle_backspace forgetting the remote when it goes up one directory
handle_backspace_DropsRemote ==
    /\ IF focused_panel = "Files"
       THEN IF current_path # <<>>
            THEN /\ current_path' = IF RFind(current_path) >= 0
                                    THEN SubSeq(current_path, 1, RFind(current_path))
                                    ELSE <<>>
                 /\ current_remote' = None
                 /\ load_files
                 /\ UNCHANGED <<focused_panel, daemon>>
            ELSE /\ current_remote' = None
                 /\ focused_panel' = "Remotes"
                 /\ files' = <<>>
                 /\ loaded' = None
                 /\ requests' = <<>>
                 /\ answers' = <<>>
                 /\ result' = "Ok"
                 /\ UNCHANGED <<current_path, files_selected, daemon>>
       ELSE /\ UNCHANGED <<current_remote, current_path, files, files_selected,
                           focused_panel>>
            /\ NoCall
    /\ UNCHANGED <<remotes, remotes_selected, running, create_remote_modal,
                   confirm_modal, pending_delete_remote>>

handle_backspace ==
    /\ IF focused_panel = "Files"
       THEN IF current_path # <<>>
            THEN /\ current_path' = IF RFind(current_path) >= 0
                                    THEN SubSeq(current_path, 1, RFind(current_path))
                                    ELSE <<>>
                 /\ UNCHANGED current_remote
                 /\ load_files
                 /\ UNCHANGED <<focused_panel, daemon>>
            ELSE /\ current_remote' = None
                 /\ focused_panel' = "Remotes"
                 /\ files' = <<>>
                 /\ loaded' = None
                 /\ requests' = <<>>
                 /\ answers' = <<>>
                 /\ result' = "Ok"
                 /\ UNCHANGED <<current_path, files_selected, daemon>>
       ELSE /\ UNCHANGED <<current_remote, current_path, files, files_selected,
                           focused_panel>>
            /\ NoCall
    /\ UNCHANGED <<remotes, remotes_selected, running, create_remote_modal,
                   confirm_modal, pending_delete_remote>>

\* the quit arm without the assignment to running
Quit_KeepsRunning ==
    /\ running' = running
    /\ UNCHANGED <<remotes, current_remote, current_path, files, remotes_selected,
                   files_selected, focused_panel, create_remote_modal,
                   confirm_modal, pending_delete_remote>>
    /\ NoCall

\* the 'q' arm of handle_key
Quit ==
    /\ running' = FALSE
    /\ UNCHANGED <<remotes, current_remote, current_path, files, remotes_selected,
                   files_selected, focused_panel, create_remote_modal,
                   confirm_modal, pending_delete_remote>>
    /\ NoCall

\* the 'a' arm of handle_key
OpenCreate ==
    /\ create_remote_modal' = Some(CreateRemoteModal_new("Create"))
    /\ UNCHANGED <<remotes, current_remote, current_path, files, remotes_selected,
                   files_selected, focused_panel, running, confirm_modal,
                   pending_delete_remote>>
    /\ NoCall

\* handle_panel_key without the focus guards of the 'a', 'd' and 'e' arms
handle_panel_key_NoFocusGuard(k) ==
    CASE k = Key("Char", "q") -> Quit
      [] k = Key("Char", "a") -> OpenCreate
      [] k = Key("Char", "d") -> handle_delete_remote
      [] k = Key("Char", "e") -> handle_edit_remote
      [] k = Key("Char", "j") \/ k.code = "Down" -> navigate_down
      [] k = Key("Char", "k") \/ k.code = "Up" -> navigate_up
      [] k.code = "Tab" -> switch_panel
      [] k.code = "Enter" -> handle_enter
      [] k.code = "Backspace" -> handle_backspace
      [] OTHER -> Ignore

\* the match of handle_key, reached when no modal is open
handle_panel_key(k) ==
    CASE k = Key("Char", "q") -> Quit
      [] k = Key("Char", "a") /\ focused_panel = "Remotes" -> OpenCreate
      [] k = Key("Char", "d") /\ focused_panel = "Remotes" -> handle_delete_remote
      [] k = Key("Char", "e") /\ focused_panel = "Remotes" -> handle_edit_remote
      [] k = Key("Char", "j") \/ k.code = "Down" -> navigate_down
      [] k = Key("Char", "k") \/ k.code = "Up" -> navigate_up
      [] k.code = "Tab" -> switch_panel
      [] k.code = "Enter" -> handle_enter
      [] k.code = "Backspace" -> handle_backspace
      [] OTHER -> Ignore

\* handle_key with the quit arm matched before the modal checks
handle_key_QuitFirst(k) ==
    IF k = Key("Char", "q") THEN Quit
    ELSE IF IsSome(confirm_modal) THEN handle_confirm_key(k)
    ELSE IF IsSome(create_remote_modal) THEN handle_modal_key(k)
    ELSE handle_panel_key(k)

\* handle_key without the check for an open Confirm modal
handle_key_NoConfirmCheck(k) ==
    IF IsSome(create_remote_modal) THEN handle_modal_key(k)
    ELSE handle_panel_key(k)

handle_key(k) ==
    IF IsSome(confirm_modal) THEN handle_confirm_key(k)
    ELSE IF IsSome(create_remote_modal) THEN handle_modal_key(k)
    ELSE handle_panel_key(k)

----------------------------------------------------------------------------
(* main.rs *)

\* Startup entering run_app whatever load_remotes returned
Startup_ContinuesOnError ==
    /\ pc = "start"
    /\ daemon' = daemon
    /\ load_remotes(<<>>)
    /\ pc' = "loop"
    /\ UNCHANGED <<current_remote, current_path, files, files_selected,
                   focused_panel, running, create_remote_modal, confirm_modal,
                   pending_delete_remote, loaded, preopen>>

\* main: app.load_remotes().await? before run_app
Startup ==
    /\ pc = "start"
    /\ daemon' = daemon
    /\ load_remotes(<<>>)
    /\ pc' = IF result' = "Ok" THEN "loop" ELSE "exit_err"
    /\ UNCHANGED <<current_remote, current_path, files, files_selected,
                   focused_panel, running, create_remote_modal, confirm_modal,
                   pending_delete_remote, loaded, preopen>>

\* the text fields of the Create/Edit modal grow to MaxFieldLen characters,
\* drawn from TextChars
Typable(k) ==
    (~IsSome(confirm_modal) /\ IsSome(create_remote_modal) /\ k.code = "Char")
        => /\ k.c \in TextChars
           /\ Len(FocusedText(Unwrap(create_remote_modal))) < MaxFieldLen

\* one iteration of run_app's loop in which a key event is read:
\* Handler::handle_key(app, key).await?
KeyEvent(k) ==
    /\ pc = "loop"
    /\ running
    /\ Typable(k)
    /\ handle_key(k)
    /\ pc' = IF result' = "Ok" THEN "loop" ELSE "exit_err"
    /\ preopen' =
        IF IsSome(confirm_modal) \/ IsSome(create_remote_modal)
        THEN IF k.code = "Enter"
                \/ ~(IsSome(confirm_modal') \/ IsSome(create_remote_modal'))
             THEN None ELSE preopen
        ELSE IF IsSome(confirm_modal') \/ IsSome(create_remote_modal')
             THEN Some(app) ELSE preopen

\* the loop condition `while app.running` found false
LoopExit ==
    /\ pc = "loop"
    /\ ~running
    /\ pc' = "exit_ok"
    /\ UNCHANGED <<app, daemon, requests, answers, result, loaded, preopen>>

Next ==
    \/ Startup
    \/ \E k \in Keys : KeyEvent(k)
    \/ LoopExit

Spec == Init /\ [][Next]_vars

----------------------------------------------------------------------------
(* Properties *)

ConfirmOpen == IsSome(confirm_modal)

CreateOpen == IsSome(create_remote_modal)

HasOp(reqs, op) == \E i \in 1..Len(reqs) : reqs[i].op = op

Enter == Key("Enter", "")

\* C1: whenever no Confirm modal is open, pending_delete_target is none,
\* however the modal was closed (Escape, Enter with No, Enter with Yes).
C1_PendingClearedOnClose == ~ConfirmOpen => pending_delete_remote = None

\* C2: whenever a Confirm modal is open, pending_delete_target holds a remote
\* name, also after a confirmed delete whose backend call failed.
C2_ConfirmHasTarget == ConfirmOpen => IsSome(pending_delete_remote)

\* C3: a delete-remote request is issued only by handling Enter while the
\* Confirm modal is open with choice Yes; no other key, and no key handled
\* outside the Confirm modal, issues one.
C3_DeleteOnlyOnConfirmedEnter ==
    [][HasOp(requests', "config/delete") =>
            /\ ConfirmOpen
            /\ Unwrap(confirm_modal).selected = "Yes"
            /\ KeyEvent(Enter)]_vars

\* a delete request went out and the session goes on
C3_Witness ==
    /\ HasOp(requests, "config/delete")
    /\ pc = "loop"
    /\ ~ConfirmOpen

\* C4: Enter in the Confirm modal with choice Yes and a pending target issues
\* the delete-remote call first and the list-remotes refresh second, and the
\* modal is closed afterwards whether the calls succeeded or failed.
C4_ConfirmedDeleteClosesModal ==
    [][(/\ ConfirmOpen
        /\ Unwrap(confirm_modal).selected = "Yes"
        /\ IsSome(pending_delete_remote)
        /\ KeyEvent(Enter))
        => /\ Len(requests') >= 1
           /\ requests'[1] = DeleteRequest(Unwrap(pending_delete_remote))
           /\ Len(requests') >= 2 => requests'[2] = ListRemotesRequest
           /\ Len(requests') <= 2
           /\ ~ConfirmOpen']_vars

\* a backend call made by the step failed: the handler returned the error, or
\* handle_modal_submit put it into the modal
CallFailed ==
    \/ result' = "Err"
    \/ /\ requests' # <<>>
       /\ CreateOpen'
       /\ IsSome(Unwrap(create_remote_modal').error)

\* C5: when a call made while handling a key fails, remotes_selected,
\* files_selected, current_remote and current_path keep the values they had
\* before the key was handled.
C5_FailureKeepsNavigation ==
    [][(pc = "loop" /\ CallFailed) =>
            UNCHANGED <<remotes_selected, files_selected, current_remote,
                        current_path>>]_vars

\* C6: a non-empty files list is the result of the latest successful
\* list-files call, and that call was made for the present current_remote and
\* current_path.
C6_FilesMatchLocation ==
    files # <<>> =>
        /\ IsSome(loaded)
        /\ files = Unwrap(loaded).list
        /\ current_remote = Some(Unwrap(loaded).remote)
        /\ current_path = Unwrap(loaded).path

\* C7: after startup a failed backend call triggered by a key does not end the
\* event loop; the loop goes on until the quit key was handled.
C7_LoopEndsOnlyOnQuit == [][(pc = "loop" /\ pc' # "loop") => ~running]_vars

\* C8: the Confirm modal and the Create/Edit modal are never open together.
C8_AtMostOneModal == ~(ConfirmOpen /\ CreateOpen)

\* a Confirm modal is open for the second of two remotes
C8_Witness ==
    /\ ConfirmOpen
    /\ ~CreateOpen
    /\ Len(remotes) = 2
    /\ remotes_selected = 1

\* C9: a key handled while a modal is open leaves focused_panel,
\* current_remote, current_path, files, files_selected and running unchanged.
C9_ModalKeysKeepNavigation ==
    [][(pc = "loop" /\ (ConfirmOpen \/ CreateOpen)) =>
            UNCHANGED <<focused_panel, current_remote, current_path, files,
                        files_selected, running>>]_vars

\* keys were handled in a Create modal opened over a browsed directory
C9_Witness ==
    /\ CreateOpen
    /\ Unwrap(create_remote_modal).name = <<"a">>
    /\ Unwrap(create_remote_modal).focus_field = "Path"
    /\ files # <<>>
    /\ current_path # <<>>
    /\ running

\* C10: running goes from true to false only when the quit key is handled with
\* no modal open, never back to true, and the loop ends normally only after
\* that.
C10_QuitOnlyWithoutModal ==
    [][/\ (running /\ ~running') =>
            (~ConfirmOpen /\ ~CreateOpen /\ KeyEvent(Key("Char", "q")))
       /\ ~running => ~running'
       /\ pc' = "exit_ok" => ~running]_vars

\* the loop ended after the quit key
C10_Witness == pc = "exit_ok" /\ ~running

ModalOpen == ConfirmOpen \/ CreateOpen

\* C11: a failure of a backend call driven from an open modal is captured in
\* the modal: the key handler returns without an error.
C11_ModalFailuresCaptured == [][(pc = "loop" /\ ModalOpen) => result' = "Ok"]_vars

\* C12: a non-empty remotes list has remotes_selected below its length, and a
\* non-empty files list has files_selected below its length.
C12_SelectionInRange ==
    /\ remotes # <<>> => remotes_selected < Len(remotes)
    /\ files # <<>> => files_selected < Len(files)

\* the second of two remotes was selected and deleted
C12_Witness ==
    /\ HasOp(requests, "config/delete")
    /\ requests[1].name = <<"b">>
    /\ result = "Ok"
    /\ Len(remotes) = 1

Esc == Key("Esc", "")

\* C13: opening a modal and pressing Escape, with only keys other than Enter
\* in between, gives back the Session State of before the opening
\* (pending_delete_target included), and no request is issued on the way.
C13_OpenThenEscapeRestores ==
    [][(ModalOpen /\ IsSome(preopen)) =>
            \A k \in Keys \ {Enter} :
                KeyEvent(k) => /\ requests' = <<>>
                               /\ k = Esc => app' = Unwrap(preopen)]_vars

ValidationError == Some(<<"Name and Type are required">>)

\* C14: Enter in the Create/Edit modal with an empty name or type issues no
\* request and keeps the modal open with mode, name, type, path and
\* focus_field unchanged and the error set to the validation message.
C14_InvalidSubmitKeepsModal ==
    [][(/\ ~ConfirmOpen
        /\ CreateOpen
        /\ \/ Unwrap(create_remote_modal).name = <<>>
           \/ Unwrap(create_remote_modal).remote_type = <<>>
        /\ KeyEvent(Enter))
        => /\ requests' = <<>>
           /\ create_remote_modal' =
                Some([Unwrap(create_remote_modal) EXCEPT !.error = ValidationError])]_vars

\* a submission with a name but an empty type was refused
C14_Witness ==
    /\ CreateOpen
    /\ Unwrap(create_remote_modal).error = ValidationError
    /\ Unwrap(create_remote_modal).remote_type = <<>>
    /\ Unwrap(create_remote_modal).name # <<>>

\* a valid Create/Edit modal is open and Enter is handled in it
ValidSubmit ==
    /\ ~ConfirmOpen
    /\ CreateOpen
    /\ Unwrap(create_remote_modal).name # <<>>
    /\ Unwrap(create_remote_modal).remote_type # <<>>
    /\ KeyEvent(Enter)

\* the text of the client's error for a failed create or update
FailureText(mode, kind) ==
    IF kind = "unreachable" THEN "HTTP error"
    ELSE IF mode = "Create" THEN "Rclone API error: Failed to create remote"
    ELSE "Rclone API error: Failed to update remote"

\* C15: when the create or update call of a valid submission fails, the modal
\* stays open with the fields as entered and the error set to the failure
\* message, remotes and remotes_selected are unchanged and no list-remotes
\* request is issued.
C15_FailedSubmitKeepsModal ==
    [][(ValidSubmit /\ answers'[1].kind # "ok")
        => LET modal == Unwrap(create_remote_modal) IN
           /\ create_remote_modal' =
                Some([modal EXCEPT !.error =
                        Some(<<"Error: ", FailureText(modal.mode, answers'[1].kind)>>)])
           /\ UNCHANGED <<remotes, remotes_selected>>
           /\ Len(requests') = 1
           /\ ~HasOp(requests', "config/listremotes")]_vars

\* an update with a typed path was refused by the daemon
C15_Witness ==
    /\ CreateOpen
    /\ Unwrap(create_remote_modal).mode = "Edit"
    /\ Unwrap(create_remote_modal).path # <<>>
    /\ Unwrap(create_remote_modal).error =
            Some(<<"Error: ", "Rclone API error: Failed to update remote">>)
    /\ HasOp(requests, "config/update")

\* what C16 says of a successful submission, but for the last conjunct
SubmitClosesAndRefreshes ==
    /\ ~CreateOpen'
    /\ Len(requests') = 2
    /\ requests'[1].op =
            IF Unwrap(create_remote_modal).mode = "Create"
            THEN "config/create" ELSE "config/update"
    /\ requests'[2] = ListRemotesRequest

\* C16 as stated: when the create or update call of a valid submission
\* succeeds, the modal is closed, exactly one list-remotes request follows,
\* and afterwards remotes is the daemon's listing in the daemon's order.
C16_Original ==
    [][(ValidSubmit /\ answers'[1].kind = "ok")
        => SubmitClosesAndRefreshes /\ remotes' = daemon']_vars

\* C16 amended: when the create or update call of a valid submission
\* succeeds, the modal is closed and exactly one list-remotes request follows;
\* when that request succeeds remotes is afterwards the daemon's listing in
\* the daemon's order, and when it fails remotes is unchanged.
C16_SubmitClosesAndRefreshes ==
    [][(ValidSubmit /\ answers'[1].kind = "ok")
        => /\ SubmitClosesAndRefreshes
           /\ IF answers'[2].kind = "ok"
              THEN remotes' = daemon' /\ remotes' = answers'[2].body
              ELSE remotes' = remotes]_vars

\* a remote was created and the refreshed list shows it after the older one
C16_Witness ==
    /\ HasOp(requests, "config/create")
    /\ result = "Ok"
    /\ ~CreateOpen
    /\ Len(remotes) = 2
    /\ remotes[2] = requests[1].name

\* C18: when the first key event is handled the state is that of App::new
\* with remotes the result of exactly one list-remotes call; when that call
\* fails no key event is ever handled.
C18_StartsBrowsingRemotes ==
    [][/\ pc = "start" =>
            /\ requests' = <<ListRemotesRequest>>
            /\ IF answers'[1].kind = "ok"
               THEN /\ pc' = "loop"
                    /\ remotes' = answers'[1].body
                    /\ focused_panel' = "Remotes"
                    /\ ~ModalOpen'
                    /\ pending_delete_remote' = None
                    /\ current_remote' = None
                    /\ current_path' = <<>>
                    /\ files' = <<>>
                    /\ remotes_selected' = 0
                    /\ files_selected' = 0
                    /\ running'
               ELSE pc' = "exit_err"
       /\ pc = "exit_err" => FALSE]_vars

\* the loop is entered with the two remotes of the daemon
C18_Witness ==
    /\ pc = "loop"
    /\ requests = <<ListRemotesRequest>>
    /\ remotes = daemon
    /\ Len(remotes) = 2

ListOps == {"config/listremotes", "operations/list"}

\* C19: for list-remotes and list-files a success-status answer whose body is
\* not JSON or whose expected field has the wrong type gives a failure result,
\* never a success value.
C19_MalformedListIsFailure ==
    [][\A i \in 1..Len(requests') :
            (/\ pc \in {"start", "loop"}
             /\ requests'[i].op \in ListOps
             /\ answers'[i].kind \in {"badjson", "wrongtype"})
            => result' = "Err"]_vars

\* C20: list-files gives a successful empty list for a success answer without
\* list field, the entries in the daemon's order when the field is there, and
\* a failure when the daemon is unreachable or answers a non-success status.
C20_ListFilesResults ==
    [][(pc = "loop" /\ requests' # <<>> /\ requests'[1].op = "operations/list")
        => LET kind == answers'[1].kind IN
           /\ kind = "nofield" => (result' = "Ok" /\ files' = <<>>)
           /\ kind = "ok" => (result' = "Ok" /\ files' = answers'[1].body)
           /\ kind \in {"unreachable", "status"} =>
                    (result' = "Err" /\ files' = files)]_vars

\* a directory of a remote was listed from an answer without list field
C20_Witness ==
    /\ requests # <<>>
    /\ requests[1].op = "operations/list"
    /\ answers[1].kind = "nofield"
    /\ result = "Ok"
    /\ files = <<>>
    /\ current_path # <<>>

NoModal == ~ConfirmOpen /\ ~CreateOpen

\* the index and the list of the focused panel
FocusedIndex == IF focused_panel = "Remotes" THEN remotes_selected ELSE files_selected

FocusedLen == IF focused_panel = "Remotes" THEN Len(remotes) ELSE Len(files)

Min(a, b) == IF a < b THEN a ELSE b

Max(a, b) == IF a > b THEN a ELSE b

\* the focused index goes to target and nothing else of the lists, the
\* indices and the focus changes
MovesFocusedIndexTo(target) ==
    /\ IF focused_panel = "Remotes"
       THEN remotes_selected' = target /\ files_selected' = files_selected
       ELSE files_selected' = target /\ remotes_selected' = remotes_selected
    /\ UNCHANGED <<remotes, files, focused_panel>>

\* C21 as stated: with no modal open Down sets the focused panel's index i to
\* min(i+1, len-1) and Up sets it to max(i-1, 0); with an empty list the index
\* does not change, and the index of the other panel never changes.
C21_Original ==
    [][NoModal =>
        /\ KeyEvent(Key("Down", "")) =>
                MovesFocusedIndexTo(IF FocusedLen = 0 THEN FocusedIndex
                                    ELSE Min(FocusedIndex + 1, FocusedLen - 1))
        /\ KeyEvent(Key("Up", "")) =>
                MovesFocusedIndexTo(IF FocusedLen = 0 THEN FocusedIndex
                                    ELSE Max(FocusedIndex - 1, 0))]_vars

\* C21 amended: with no modal open Down sets the focused panel's index i to
\* min(i+1, len-1) and leaves it unchanged when the list is empty; Up sets it
\* to max(i-1, 0), also when the list is empty; the index of the other panel
\* never changes.
C21_NavigationClamps ==
    [][NoModal =>
        /\ KeyEvent(Key("Down", "")) =>
                MovesFocusedIndexTo(IF FocusedLen = 0 THEN FocusedIndex
                                    ELSE Min(FocusedIndex + 1, FocusedLen - 1))
        /\ KeyEvent(Key("Up", "")) =>
                MovesFocusedIndexTo(Max(FocusedIndex - 1, 0))]_vars

\* the last entry is selected in both panels
C21_Witness ==
    /\ pc = "loop"
    /\ NoModal
    /\ focused_panel = "Files"
    /\ Len(files) = 2
    /\ files_selected = 1
    /\ Len(remotes) = 2
    /\ remotes_selected = 1

OtherPanel == {"Remotes", "Files"} \ {focused_panel}

\* C22: switch_panel moves the focus to the other of the two panels and
\* changes nothing else, so that two of them give back the panel.
C22_SwitchPanelToggles ==
    [][(NoModal /\ KeyEvent(Key("Tab", "")))
        => /\ focused_panel \in {"Remotes", "Files"}
           /\ focused_panel' \in OtherPanel
           /\ UNCHANGED <<remotes, current_remote, current_path, files,
                          remotes_selected, files_selected, running,
                          create_remote_modal, confirm_modal,
                          pending_delete_remote>>
           /\ requests' = <<>>]_vars

\* the focus was moved to the Files panel of a listed remote
C22_Witness ==
    /\ pc = "loop"
    /\ NoModal
    /\ focused_panel = "Files"
    /\ files # <<>>
    /\ requests = <<>>

\* the Confirm modal stays open with the given choice and nothing else changes
ConfirmChoiceBecomes(choice) ==
    /\ confirm_modal' = Some([Unwrap(confirm_modal) EXCEPT !.selected = choice])
    /\ UNCHANGED <<remotes, current_remote, current_path, files, remotes_selected,
                   files_selected, focused_panel, running, create_remote_modal,
                   pending_delete_remote>>
    /\ requests' = <<>>

Flipped == IF Unwrap(confirm_modal).selected = "Yes" THEN "No" ELSE "Yes"

\* C23: in the Confirm modal Tab, Left and Right flip the choice, "y" leaves it
\* at Yes and "n" at No; none of them closes the modal, changes the pending
\* target or issues a request.
C23_ConfirmChoiceKeys ==
    [][ConfirmOpen =>
        /\ toggle(Unwrap(confirm_modal)) =
                [Unwrap(confirm_modal) EXCEPT !.selected = Flipped]
        /\ toggle(toggle(Unwrap(confirm_modal))) = Unwrap(confirm_modal)
        /\ \A code \in {"Tab", "Left", "Right"} :
                KeyEvent(Key(code, "")) => ConfirmChoiceBecomes(Flipped)
        /\ KeyEvent(Key("Char", "y")) => ConfirmChoiceBecomes("Yes")
        /\ KeyEvent(Key("Char", "n")) => ConfirmChoiceBecomes("No")]_vars

\* the choice of an open Confirm modal was moved to Yes
C23_Witness ==
    /\ ConfirmOpen
    /\ Unwrap(confirm_modal).selected = "Yes"
    /\ IsSome(pending_delete_remote)
    /\ pc = "loop"

FieldAfter(f) == IF f = "Name" THEN "Type" ELSE IF f = "Type" THEN "Path" ELSE "Name"

\* C24: next_field goes Name, Type, Path, Name, three of them give back the
\* field, prev_field undoes next_field and next_field undoes prev_field, and
\* neither changes a text field or the error.
C24_FieldCycle ==
    CreateOpen =>
        LET modal == Unwrap(create_remote_modal) IN
        /\ next_field(modal) = [modal EXCEPT !.focus_field = FieldAfter(modal.focus_field)]
        /\ next_field(next_field(next_field(modal))) = modal
        /\ prev_field(next_field(modal)) = modal
        /\ next_field(prev_field(modal)) = modal
        /\ prev_field(modal) =
                [modal EXCEPT !.focus_field = FieldAfter(FieldAfter(modal.focus_field))]

\* the focus of a modal with a name and an error was moved to Path
C24_Witness ==
    /\ CreateOpen
    /\ Unwrap(create_remote_modal).focus_field = "Path"
    /\ Unwrap(create_remote_modal).name # <<>>
    /\ IsSome(Unwrap(create_remote_modal).error)

\* the listing a successful list-files call returned for the answer
Returned(answer) == IF answer.kind = "ok" THEN answer.body ELSE <<>>

\* C25: Enter with focus on Remotes, no modal and a remote selected: when the
\* list-files call succeeds current_remote is the selected remote,
\* current_path is empty, files is the returned listing of the remote's root,
\* files_selected is 0 and the focus is on Files; when it fails the focus
\* stays on Remotes.
C25_EnterRemote ==
    [][(/\ NoModal
        /\ focused_panel = "Remotes"
        /\ remotes_selected < Len(remotes)
        /\ KeyEvent(Enter))
        => LET remote == remotes[remotes_selected + 1] IN
           /\ requests' = <<ListFilesRequest(remote, <<>>)>>
           /\ IF result' = "Ok"
              THEN /\ current_remote' = Some(remote)
                   /\ current_path' = <<>>
                   /\ files' = Returned(answers'[1])
                   /\ files_selected' = 0
                   /\ focused_panel' = "Files"
              ELSE focused_panel' = "Remotes"]_vars

\* the second remote was entered and its root listed
C25_Witness ==
    /\ focused_panel = "Files"
    /\ Len(remotes) = 2
    /\ current_remote = Some(remotes[2])
    /\ current_path = <<>>
    /\ files = <<FileF, DirD>>
    /\ requests = <<ListFilesRequest(remotes[2], <<>>)>>

\* a directory is selected in the focused Files panel
DirSelected ==
    /\ focused_panel = "Files"
    /\ files_selected < Len(files)
    /\ files[files_selected + 1].is_dir

\* C26: Enter with focus on Files, no modal and a directory n selected sets
\* current_path to "/n" when it was empty and to the old path followed by
\* "/n" otherwise, and issues exactly one list-files request for
\* (current_remote, new path); on success files is the returned listing and
\* files_selected is 0.
C26_EnterDirectory ==
    [][(NoModal /\ DirSelected /\ KeyEvent(Enter))
        => LET n == files[files_selected + 1].name
               path == IF current_path = <<>> THEN <<"/">> \o n
                       ELSE current_path \o <<"/">> \o n IN
           /\ current_path' = path
           /\ current_remote' = current_remote
           /\ requests' = <<ListFilesRequest(Unwrap(current_remote), path)>>
           /\ result' = "Ok" => /\ files' = Returned(answers'[1])
                                /\ files_selected' = 0]_vars

\* a directory inside a directory was entered and listed
C26_Witness ==
    /\ focused_panel = "Files"
    /\ current_path = <<"/", "d", "/", "d">>
    /\ IsSome(current_remote)
    /\ requests = <<ListFilesRequest(Unwrap(current_remote), current_path)>>
    /\ result = "Ok"
    /\ files_selected = 0

\* the part of a path before its last separator, empty when it has none
Parent(path) ==
    LET at == {i \in 1..Len(path) : path[i] = "/"} IN
    IF at = {} THEN <<>>
    ELSE SubSeq(path, 1, (CHOOSE i \in at : \A j \in at : j <= i) - 1)

\* C27: Back with focus on Files, no modal and a non-empty current_path
\* truncates current_path to the part before its last separator and issues
\* exactly one list-files request for the truncated path; current_remote and
\* the focus are unchanged.
C27_BackToParent ==
    [][(/\ NoModal
        /\ focused_panel = "Files"
        /\ current_path # <<>>
        /\ KeyEvent(Key("Backspace", "")))
        => /\ current_path' = Parent(current_path)
           /\ requests' =
                <<ListFilesRequest(Unwrap(current_remote), Parent(current_path))>>
           /\ UNCHANGED <<current_remote, focused_panel>>]_vars

\* the parent "/d" of a directory two levels down was listed
C27_Witness ==
    /\ focused_panel = "Files"
    /\ current_path = <<"/", "d">>
    /\ IsSome(current_remote)
    /\ requests = <<ListFilesRequest(Unwrap(current_remote), <<"/", "d">>)>>
    /\ result = "Ok"

\* C28: Back with focus on Files, no modal and an empty current_path sets
\* current_remote to none, empties files and moves the focus to Remotes,
\* issues no request and leaves remotes and remotes_selected unchanged.
C28_BackToRemotes ==
    [][(/\ NoModal
        /\ focused_panel = "Files"
        /\ current_path = <<>>
        /\ KeyEvent(Key("Backspace", "")))
        => /\ current_remote' = None
           /\ files' = <<>>
           /\ focused_panel' = "Remotes"
           /\ requests' = <<>>
           /\ UNCHANGED <<remotes, remotes_selected>>]_vars

\* the second remote was left from its root with the second entry selected
C28_Witness ==
    /\ pc = "loop"
    /\ NoModal
    /\ focused_panel = "Remotes"
    /\ current_remote = None
    /\ files = <<>>
    /\ files_selected = 1
    /\ remotes_selected = 1
    /\ requests = <<>>

\* nothing of the Session State changes and no request is issued
NoEffect == UNCHANGED app /\ requests' = <<>>

\* C29: with no modal open a key without applicable transition changes nothing
\* and issues no request: Enter on a non-directory entry or on an empty list,
\* Back with focus on Remotes, 'a', 'd' and 'e' with focus on Files, 'd' and
\* 'e' with an empty remote list.
C29_InapplicableKeys ==
    [][NoModal =>
        /\ (/\ KeyEvent(Enter)
            /\ \/ focused_panel = "Files" /\ ~DirSelected
               \/ focused_panel = "Remotes" /\ remotes = <<>>) => NoEffect
        /\ (KeyEvent(Key("Backspace", "")) /\ focused_panel = "Remotes") => NoEffect
        /\ \A c \in {"a", "d", "e"} :
                (KeyEvent(Key("Char", c)) /\ focused_panel = "Files") => NoEffect
        /\ \A c \in {"d", "e"} :
                (KeyEvent(Key("Char", c)) /\ remotes = <<>>) => NoEffect]_vars

\* a file is selected in the focused Files panel and the last key did nothing
C29_Witness ==
    /\ pc = "loop"
    /\ NoModal
    /\ focused_panel = "Files"
    /\ files_selected < Len(files)
    /\ ~files[files_selected + 1].is_dir
    /\ files_selected = 0
    /\ current_path # <<>>
    /\ requests = <<>>

\* C30: 'd' with focus on Remotes, no modal and a non-empty remote list sets
\* the pending target to remotes[remotes_selected] and opens a Confirm modal
\* with choice No; every Confirm modal starts with choice No when it opens.
C30_ConfirmOpensOnNo ==
    [][/\ (/\ NoModal
           /\ focused_panel = "Remotes"
           /\ remotes # <<>>
           /\ KeyEvent(Key("Char", "d")))
          => /\ pending_delete_remote' = Some(remotes[remotes_selected + 1])
             /\ ConfirmOpen'
             /\ Unwrap(confirm_modal').selected = "No"
       /\ (~ConfirmOpen /\ ConfirmOpen') => Unwrap(confirm_modal').selected = "No"]_vars

\* the Confirm modal is open on No for the second remote
C30_Witness ==
    /\ ConfirmOpen
    /\ Unwrap(confirm_modal).selected = "No"
    /\ Len(remotes) = 2
    /\ remotes_selected = 1
    /\ pending_delete_remote = Some(remotes[2])

\* only the Create/Edit modal changes, to the given one, and no request is
\* issued
OpensModal(modal) ==
    /\ create_remote_modal' = Some(modal)
    /\ UNCHANGED <<remotes, current_remote, current_path, files, remotes_selected,
                   files_selected, focused_panel, running, confirm_modal,
                   pending_delete_remote>>
    /\ requests' = <<>>

\* C31: with focus on Remotes and no modal 'a' opens the modal in Create mode
\* with empty name and path, type "local", focus on Name and no error; 'e'
\* with a remote selected opens it in Edit mode with the name of
\* remotes[remotes_selected]; neither issues a request or changes the
\* navigation state.
C31_OpenCreateAndEdit ==
    [][(NoModal /\ focused_panel = "Remotes") =>
        /\ KeyEvent(Key("Char", "a")) =>
                OpensModal([mode |-> "Create", name |-> <<>>, remote_type |-> Local,
                            path |-> <<>>, focus_field |-> "Name", error |-> None])
        /\ (KeyEvent(Key("Char", "e")) /\ remotes_selected < Len(remotes)) =>
                OpensModal([mode |-> "Edit", name |-> remotes[remotes_selected + 1],
                            remote_type |-> Local, path |-> <<>>,
                            focus_field |-> "Name", error |-> None])]_vars

\* the Edit modal was opened for the second remote
C31_Witness ==
    /\ CreateOpen
    /\ Unwrap(create_remote_modal).mode = "Edit"
    /\ Len(remotes) = 2
    /\ remotes_selected = 1
    /\ Unwrap(create_remote_modal).name = remotes[2]
    /\ Unwrap(create_remote_modal).focus_field = "Name"
    /\ requests = <<>>

\* the modal with the text of the focused field replaced by text and the
\* error cleared
WithFocusedText(modal, text) ==
    IF modal.focus_field = "Name" THEN [modal EXCEPT !.name = text, !.error = None]
    ELSE IF modal.focus_field = "Type"
    THEN [modal EXCEPT !.remote_type = text, !.error = None]
    ELSE [modal EXCEPT !.path = text, !.error = None]

\* the text without its last character, the text itself when it is empty
WithoutLast(text) == IF text = <<>> THEN <<>> ELSE SubSeq(text, 1, Len(text) - 1)

\* the Create/Edit modal has the keyboard
CreateHasKeys == CreateOpen /\ ~ConfirmOpen

C33_SubmitRequest ==
    [][ValidSubmit =>
        LET modal == Unwrap(create_remote_modal)
            params == IF modal.path = <<>> THEN {} ELSE {<<"path", modal.path>>}
        IN  /\ requests' # <<>>
            /\ requests'[1].name = modal.name
            /\ requests'[1].params = params
            /\ IF modal.mode = "Create"
               THEN /\ requests'[1].op = "config/create"
                    /\ requests'[1].rtype = modal.remote_type
                    /\ ~HasOp(requests', "config/update")
               ELSE /\ requests'[1].op = "config/update"
                    /\ ~HasOp(requests', "config/create")]_vars

\* a create with type "local" and a path was requested
C33_Witness ==
    /\ requests # <<>>
    /\ requests[1].op = "config/create"
    /\ requests[1].name = <<"a">>
    /\ requests[1].rtype = Local
    /\ requests[1].params = {<<"path", <<"a">>>>}

Mutations == {"config/create", "config/update", "config/delete"}

\* C34: one key event issues at most two requests, a mutation and then
\* list-remotes; nothing follows a failed request, and the list-remotes
\* refresh is issued only after a mutation that succeeded.
C34_RequestsPerKey ==
    [][pc = "loop" =>
        /\ Len(requests') <= 2
        /\ Len(answers') = Len(requests')
        /\ \A i \in 1..Len(requests') :
                /\ answers'[i].kind \notin {"ok", "nofield", "wrongtype"}
                        => i = Len(requests')
                /\ requests'[i].op = "config/listremotes" =>
                        /\ i = 2
                        /\ requests'[1].op \in Mutations
                        /\ answers'[1].kind = "ok"
                /\ requests'[i].op \in Mutations => i = 1]_vars

\* a delete succeeded and the refresh after it failed
C34_Witness ==
    /\ Len(requests) = 2
    /\ requests[1].op = "config/delete"
    /\ requests[2].op = "config/listremotes"
    /\ answers[2].kind = "status"
    /\ result = "Err"

\* C35: the fs value of every list-files request is the remote name, one ":"
\* and then current_path; with an empty path it is the name and ":" only.
C35_FsPath ==
    \A i \in 1..Len(requests) :
        requests[i].op = "operations/list" =>
            /\ IsSome(current_remote)
            /\ requests[i].fs = Unwrap(current_remote) \o <<":">> \o current_path
            /\ current_path = <<>> => requests[i].fs = Unwrap(current_remote) \o <<":">>

\* the root of remote "b" was listed
C35_Witness ==
    /\ requests # <<>>
    /\ requests[1].op = "operations/list"
    /\ requests[1].fs = <<"b", ":">>
    /\ current_path = <<>>

\* C36: the name sent in every delete-remote request is
\* remotes[remotes_selected] when the request is issued: while the Confirm
\* modal is open and no delete is sent, the remote list and the selection do
\* not change, and the pending target is the selected remote.
C36_DeleteSendsSelected ==
    [][pc = "loop" =>
        /\ HasOp(requests', "config/delete") =>
                /\ remotes_selected < Len(remotes)
                /\ requests'[1] = DeleteRequest(remotes[remotes_selected + 1])
        /\ (ConfirmOpen /\ IsSome(pending_delete_remote)) =>
                /\ remotes_selected < Len(remotes)
                /\ pending_delete_remote = Some(remotes[remotes_selected + 1])
        /\ (ConfirmOpen /\ ~HasOp(requests', "config/delete")) =>
                UNCHANGED <<remotes, remotes_selected>>]_vars

\* the delete of the second of two remotes was refused by the daemon
C36_Witness ==
    /\ Len(remotes) = 2
    /\ remotes_selected = 1
    /\ requests = <<DeleteRequest(remotes[2])>>
    /\ answers[1].kind = "status"
    /\ result = "Err"

\* C37: without current remote the path and the files are empty.
C37_NoRemoteNoLocation ==
    current_remote = None => (current_path = <<>> /\ files = <<>>)

\* a remote was left from its root and the focus moved back to Files
C37_Witness ==
    /\ pc = "loop"
    /\ current_remote = None
    /\ current_path = <<>>
    /\ files = <<>>
    /\ focused_panel = "Files"
    /\ files_selected = 1

\* C38: Enter on a directory and then Back, both list-files calls succeeding,
\* give back current_path and current_remote and leave the focus on Files:
\* Enter leads to a path whose parent is the old path, with the same remote
\* and the focus on Files, and Back from a path leads to its parent, with the
\* same remote and focus.
C38_EnterThenBack ==
    [][NoModal =>
        /\ (DirSelected /\ KeyEvent(Enter) /\ result' = "Ok") =>
                /\ NoModal'
                /\ focused_panel' = "Files"
                /\ current_path' # <<>>
                /\ Parent(current_path') = current_path
                /\ current_remote' = current_remote
        /\ (/\ focused_panel = "Files"
            /\ current_path # <<>>
            /\ KeyEvent(Key("Backspace", ""))
            /\ result' = "Ok") =>
                /\ current_path' = Parent(current_path)
                /\ current_remote' = current_remote
                /\ focused_panel' = "Files"]_vars

\* the root of the only remote was listed again, with its two entries
C38_Witness ==
    /\ focused_panel = "Files"
    /\ Len(remotes) = 1
    /\ current_remote = Some(remotes[1])
    /\ current_path = <<>>
    /\ answers = <<Answer("ok", <<FileF, DirD>>)>>
    /\ files = <<FileF, DirD>>
    /\ result = "Ok"

\* C39: a successful create, update or delete with the refresh after it
\* leaves current_remote, current_path, files, files_selected and
\* focused_panel unchanged, also when the deleted remote is the current one;
\* every successful list-remotes refresh sets remotes_selected to 0.
C39_MutationFrame ==
    [][/\ (/\ pc = "loop"
           /\ requests' # <<>>
           /\ requests'[1].op \in Mutations
           /\ answers'[1].kind = "ok") =>
                UNCHANGED <<current_remote, current_path, files, files_selected,
                            focused_panel, running>>
       /\ \A i \in 1..Len(requests') :
            (requests'[i].op = "config/listremotes" /\ answers'[i].kind = "ok") =>
                (remotes_selected' = 0 /\ remotes' = answers'[i].body)]_vars

\* the current remote, whose files are shown, was deleted
C39_Witness ==
    /\ HasOp(requests, "config/delete")
    /\ result = "Ok"
    /\ IsSome(current_remote)
    /\ requests[1].name = Unwrap(current_remote)
    /\ files # <<>>
    /\ remotes_selected = 0
    /\ \A i \in 1..Len(remotes) : remotes[i] # Unwrap(current_remote)

QuitKey == Key("Char", "q")

====
